---- MODULE Spec2Model ----
(***************************************************************************)
(* Fuzzy classification service (api_servicio.py).                         *)
(*                                                                         *)
(* The module builds, at import time, two antecedents, one consequent,     *)
(* nine rules, a ControlSystem and ONE ControlSystemSimulation             *)
(* (clasificador_servicio).  The endpoint clasificar() writes the two      *)
(* request values into that shared simulation, runs compute() and reads    *)
(* the crisp output back.                                                  *)
(*                                                                         *)
(* Numbers.  Degrees of truth are floats in [0,1]; they are kept here as   *)
(* integers in 0..Scale, Scale being the least common multiple of the      *)
(* edge widths of all triangles, so that every degree at an integer point  *)
(* is exact.  A crisp output is the exact fraction <<num, den>>.  A        *)
(* returned score, round(x, 2), is an integer number of hundredths.        *)
(* Requests carry integer values.                                          *)
(***************************************************************************)
EXTENDS Integers, Sequences, FiniteSets, TLC

VARIABLES
    clasificador_servicio,  \* the shared ControlSystemSimulation (line 88)
    clip_to_bounds,         \* whether the simulation clips inputs to the universe
    pc,                     \* per worker thread: position inside clasificar
    request,                \* per worker thread: the request being served
    exc,                    \* per worker thread: the exception caught, if any
    log                     \* completed calls, in order of return

vars == <<clasificador_servicio, clip_to_bounds, pc, request, exc, log>>

(***************************************************************************)
(* Bounds of the model.                                                    *)
(***************************************************************************)
\* How far outside the declared universes a request value may lie.
Margin == 2
\* Number of calls in a sequential run.
MaxCalls == 3
\* Number of calls started in a concurrent run.
MaxConcurrentCalls == 2

None == <<>>
Some(v) == <<v>>
Val(o) == o[1]

Min2(a, b) == IF a <= b THEN a ELSE b
Max2(a, b) == IF a >= b THEN a ELSE b

RECURSIVE Gcd(_, _)
Gcd(a, b) == IF b = 0 THEN a ELSE Gcd(b, a % b)
Lcm(a, b) == (a * b) \div Gcd(a, b)

\* Largest member of a set of degrees; 0 for the empty set.
MaxOf(S) == IF S = {} THEN 0 ELSE CHOOSE x \in S : \A y \in S : x >= y

(***************************************************************************)
(* PASO 2: the fuzzy inference system.                                     *)
(***************************************************************************)
\* np.arange(start, stop, 1)
arange(start, stop) == start .. (stop - 1)

tiempo_espera_universe == arange(0, 61)
calidad_comida_universe == arange(0, 11)
calidad_servicio_universe == arange(0, 101)

\* Medio starting where Bajo ends leaves 15 minutes with no label.
tiempo_espera_terms_gap ==
    [Bajo  |-> <<0, 0, 15>>,
     Medio |-> <<15, 25, 40>>,
     Alto  |-> <<20, 60, 60>>]

tiempo_espera_terms ==
    [Bajo  |-> <<0, 0, 15>>,
     Medio |-> <<10, 25, 40>>,
     Alto  |-> <<20, 60, 60>>]

calidad_comida_terms ==
    [Mala      |-> <<0, 0, 4>>,
     Aceptable |-> <<3, 6, 8>>,
     Excelente |-> <<7, 10, 10>>]

calidad_servicio_terms ==
    [Mala      |-> <<0, 0, 30>>,
     Regular   |-> <<20, 45, 70>>,
     Buena     |-> <<60, 80, 95>>,
     Excelente |-> <<90, 100, 100>>]

\* universe.min() and universe.max()
UMin(u) == CHOOSE x \in u : \A y \in u : x <= y
UMax(u) == CHOOSE x \in u : \A y \in u : x >= y
Variable(label, universe, terms) ==
    [label |-> label, universe |-> universe, terms |-> terms,
     min |-> UMin(universe), max |-> UMax(universe)]

tiempo_espera ==
    Variable("tiempo_espera", tiempo_espera_universe, tiempo_espera_terms)
calidad_comida ==
    Variable("calidad_comida", calidad_comida_universe, calidad_comida_terms)
calidad_servicio ==
    Variable("calidad_servicio", calidad_servicio_universe, calidad_servicio_terms)

Antecedents == [tiempo_espera |-> tiempo_espera, calidad_comida |-> calidad_comida]

\* The edge widths b-a and c-b of every triangle (zero-width edges are steps).
Widths(terms) ==
    UNION {{terms[l][2] - terms[l][1], terms[l][3] - terms[l][2]} \ {0} :
           l \in DOMAIN terms}
RECURSIVE LcmOf(_)
LcmOf(S) == IF S = {} THEN 1
            ELSE LET x == CHOOSE y \in S : TRUE IN Lcm(x, LcmOf(S \ {x}))
\* The integer standing for the degree 1.0.
Scale == LcmOf(Widths(tiempo_espera_terms) \cup Widths(calidad_comida_terms)
               \cup Widths(calidad_servicio_terms))

\* fuzzy.trimf at one universe point x for abc = [a, b, c].
trimf(x, abc) ==
    LET a == abc[1]
        b == abc[2]
        c == abc[3]
    IN  IF x = b THEN Scale
        ELSE IF a # b /\ a < x /\ x < b THEN (Scale * (x - a)) \div (b - a)
        ELSE IF b # c /\ b < x /\ x < c THEN (Scale * (c - x)) \div (c - b)
        ELSE 0

\* Degree of crisp value x in a term of a variable: the sampled curve read at
\* x, and 0 outside the universe.
interp_membership(var, term, x) ==
    IF x \in var.universe THEN trimf(x, var.terms[term]) ELSE 0

\* tiempo_espera['Bajo'] & calidad_comida['Mala']
TermAnd(wait, food) ==
    [op |-> "AND", left |-> <<"tiempo_espera", wait>>,
     right |-> <<"calidad_comida", food>>]
\* ctrl.Rule(antecedent, calidad_servicio[term])
Rule(antecedent, term) == [antecedent |-> antecedent, consequent |-> term]

rule1 == Rule(TermAnd("Bajo", "Mala"), "Regular")
rule2 == Rule(TermAnd("Bajo", "Aceptable"), "Buena")
rule3_buena == Rule(TermAnd("Bajo", "Excelente"), "Buena")
rule3 == Rule(TermAnd("Bajo", "Excelente"), "Excelente")
rule4 == Rule(TermAnd("Medio", "Mala"), "Mala")
rule5 == Rule(TermAnd("Medio", "Aceptable"), "Regular")
rule6_excelente == Rule(TermAnd("Medio", "Excelente"), "Excelente")
rule6 == Rule(TermAnd("Medio", "Excelente"), "Buena")
rule7_regular == Rule(TermAnd("Alto", "Mala"), "Regular")
rule7 == Rule(TermAnd("Alto", "Mala"), "Mala")
rule8_mala == Rule(TermAnd("Alto", "Aceptable"), "Mala")
rule8 == Rule(TermAnd("Alto", "Aceptable"), "Regular")
rule9 == Rule(TermAnd("Alto", "Excelente"), "Buena")

\* rule9 left out of the list handed to ControlSystem.
control_sistema_short ==
    <<rule1, rule2, rule3, rule4, rule5, rule6, rule7, rule8>>

control_sistema ==
    <<rule1, rule2, rule3, rule4, rule5, rule6, rule7, rule8, rule9>>

(***************************************************************************)
(* The simulation object and its operations.                               *)
(***************************************************************************)
\* ctrl.ControlSystemSimulation(control_sistema): no inputs, no outputs yet.
NewSimulation ==
    [input      |-> [tiempo_espera |-> None, calidad_comida |-> None],
     aggregated |-> [x \in calidad_servicio_universe |-> 0],
     output     |-> [calidad_servicio |-> None]]

\* The value the simulation stores for an assigned input.
Accepted(clip, var, value) ==
    IF clip THEN Min2(var.max, Max2(var.min, value))
    ELSE value

\* clasificador_servicio.input[name] = value
SetInput(sim, clip, name, value) ==
    [sim EXCEPT !.input[name] = Some(Accepted(clip, Antecedents[name], value))]

\* Fuzzification of the stored inputs: degree of every label of a variable.
Fuzzify(var, x) == [l \in DOMAIN var.terms |-> interp_membership(var, l, x)]

\* Value of an antecedent expression under the fuzzified inputs.
AntecedentValue(a, fz) ==
    LET l == fz[a.left[1]][a.left[2]]
        r == fz[a.right[1]][a.right[2]]
    IN  IF a.op = "AND" THEN Min2(l, r) ELSE Max2(l, r)

\* Firing strength of one rule.
Firing(rule, fz) == AntecedentValue(rule.antecedent, fz)

\* Per output term: the strongest firing among the system's rules that
\* conclude it (accumulation by max).
Cuts(system, fz) ==
    [t \in DOMAIN calidad_servicio_terms |->
        MaxOf({Firing(system[i], fz) :
               i \in {j \in DOMAIN system : system[j].consequent = t}})]

\* Implication (clip each term's curve at its cut) and aggregation (max).
Aggregate(cuts) ==
    [x \in calidad_servicio_universe |->
        MaxOf({Min2(cuts[t], trimf(x, calidad_servicio_terms[t])) :
               t \in DOMAIN calidad_servicio_terms})]

RECURSIVE SumOver(_, _, _)
SumOver(mu, lo, hi) ==
    IF lo > hi THEN 0
    ELSE IF lo = hi THEN mu[lo]
    ELSE LET mid == (lo + hi) \div 2
         IN  SumOver(mu, lo, mid) + SumOver(mu, mid + 1, hi)

RECURSIVE MomentOver(_, _, _)
MomentOver(mu, lo, hi) ==
    IF lo > hi THEN 0
    ELSE IF lo = hi THEN lo * mu[lo]
    ELSE LET mid == (lo + hi) \div 2
         IN  MomentOver(mu, lo, mid) + MomentOver(mu, mid + 1, hi)

\* Centroid over the discretized universe: <<sum x*mu(x), sum mu(x)>>.
Centroid(mu) ==
    <<MomentOver(mu, calidad_servicio.min, calidad_servicio.max),
      SumOver(mu, calidad_servicio.min, calidad_servicio.max)>>

\* The member of a one-element set (binds a computed value once).
The(S) == CHOOSE r \in S : TRUE

\* The fuzzified inputs of a simulation whose inputs are set.
Fuzzified(sim) ==
    [tiempo_espera  |-> Fuzzify(tiempo_espera, Val(sim.input.tiempo_espera)),
     calidad_comida |-> Fuzzify(calidad_comida, Val(sim.input.calidad_comida))]

\* The aggregated output set of a simulation whose inputs are set.
Aggregated(sim) ==
    The({Aggregate(cuts) : cuts \in {Cuts(control_sistema, Fuzzified(sim))}})

\* Defuzzification of the aggregated set mu: a zero denominator raises.
Defuzzify(sim, mu, cen) ==
    IF cen[2] = 0
    THEN [sim    |-> [sim EXCEPT !.aggregated = mu],
          raised |-> Some("Crisp output cannot be calculated")]
    ELSE [sim    |-> [sim EXCEPT !.aggregated = mu,
                                 !.output.calidad_servicio = Some(cen)],
          raised |-> None]

\* clasificador_servicio.compute(): the simulation afterwards and the
\* exception raised, if any.
compute(sim) ==
    IF sim.input.tiempo_espera = None \/ sim.input.calidad_comida = None
    THEN [sim |-> sim, raised |-> Some("All antecedents must have input values!")]
    ELSE The({The({Defuzzify(sim, mu, cen) : cen \in {Centroid(mu)}}) :
              mu \in {Aggregated(sim)}})

(***************************************************************************)
(* PASO 3: the endpoint.                                                   *)
(***************************************************************************)
\* round(x, 2) of the fraction x = <<num, den>>, in hundredths; ties to even.
round2(x) ==
    LET q == (100 * x[1]) \div x[2]
        r == (100 * x[1]) % x[2]
    IN  IF 2 * r < x[2] THEN q
        ELSE IF 2 * r > x[2] THEN q + 1
        ELSE IF q % 2 = 0 THEN q ELSE q + 1

\* ClasificacionRequest
ClasificacionRequest(t, c) == [tiempo_espera |-> t, calidad_comida |-> c]

\* The body returned on success (lines 113-116).
SuccessResponse(puntuacion_final) ==
    [puntuacion_final |-> Some(round2(puntuacion_final)),
     estado |-> "Clasificacion exitosa"]

\* An except branch that reports a failure as the score 0.
ErrorResponse_zero(e) ==
    [puntuacion_final |-> Some(0),
     estado |-> "Error en la clasificacion: " \o e]

\* The body returned by the except branch (lines 119-122).
ErrorResponse(e) ==
    [puntuacion_final |-> None,
     estado |-> "Error en la clasificacion: " \o e]

\* Lines 110-116: read output['calidad_servicio'] and build the body; a missing
\* key raises inside the try block.
ReadOutput(sim) ==
    IF sim.output.calidad_servicio = None
    THEN ErrorResponse("'calidad_servicio'")
    ELSE SuccessResponse(Val(sim.output.calidad_servicio))

\* The output read before compute() has run on the new inputs.
clasificar_stale(sim, clip, req) ==
    LET s1 == SetInput(sim, clip, "tiempo_espera", req.tiempo_espera)
        s2 == SetInput(s1, clip, "calidad_comida", req.calidad_comida)
        Return(c) ==
            IF c.raised # None
            THEN [sim |-> c.sim, response |-> ErrorResponse(Val(c.raised))]
            ELSE [sim |-> c.sim, response |-> ReadOutput(s2)]
    IN  The({Return(c) : c \in {compute(s2)}})

\* Values outside the universes refused before they reach the simulation.
clasificar_reject(sim, clip, req) ==
    LET s1 == SetInput(sim, clip, "tiempo_espera", req.tiempo_espera)
        s2 == SetInput(s1, clip, "calidad_comida", req.calidad_comida)
        Return(c) ==
            IF c.raised # None
            THEN [sim |-> c.sim, response |-> ErrorResponse(Val(c.raised))]
            ELSE [sim |-> c.sim, response |-> ReadOutput(c.sim)]
    IN  IF req.tiempo_espera \notin tiempo_espera_universe
           \/ req.calidad_comida \notin calidad_comida_universe
        THEN [sim |-> sim, response |-> ErrorResponse("Input value out of bounds")]
        ELSE The({Return(c) : c \in {compute(s2)}})

\* One whole call of clasificar on simulation sim: the simulation afterwards
\* and the response.
clasificar(sim, clip, req) ==
    LET s1 == SetInput(sim, clip, "tiempo_espera", req.tiempo_espera)
        s2 == SetInput(s1, clip, "calidad_comida", req.calidad_comida)
        Return(c) ==
            IF c.raised # None
            THEN [sim |-> c.sim, response |-> ErrorResponse(Val(c.raised))]
            ELSE [sim |-> c.sim, response |-> ReadOutput(c.sim)]
    IN  The({Return(c) : c \in {compute(s2)}})

(***************************************************************************)
(* State machine.                                                          *)
(***************************************************************************)
Workers == {1, 2}

\* The state after import.  The simulation is built with the library's
\* defaults (line 88); whether it clips an input to the universe or keeps it
\* as given is fixed by the installed library, so both are initial states.
Init ==
    /\ clasificador_servicio = NewSimulation
    /\ clip_to_bounds \in BOOLEAN
    /\ pc = [w \in Workers |-> "idle"]
    /\ request = [w \in Workers |-> None]
    /\ exc = [w \in Workers |-> None]
    /\ log = <<>>

Idle == \A w \in Workers : pc[w] = "idle"

\* A whole call of clasificar with no other call in progress.
Clasificar(req) ==
    /\ Idle
    /\ \E r \in {clasificar(clasificador_servicio, clip_to_bounds, req)} :
           /\ clasificador_servicio' = r.sim
           /\ log' = Append(log, [request |-> req, response |-> r.response])
    /\ UNCHANGED <<clip_to_bounds, pc, request, exc>>

\* Every request within Margin of the declared universes.
AllRequests ==
    {ClasificacionRequest(t, c) :
        t \in (0 - Margin) .. (60 + Margin), c \in (0 - Margin) .. (10 + Margin)}

\* One evaluation on the freshly built simulation.
EvalNext == \E req \in AllRequests : Len(log) < 1 /\ Clasificar(req)
SpecEval == Init /\ [][EvalNext]_vars

\* Sequential calls: the two scenarios of the documentation and values
\* beyond the universes, in every combination.
SeqRequests ==
    {ClasificacionRequest(t, c) : t \in {5, 50, 60 + Margin}, c \in {1, 9, 10 + Margin}}

SeqNext == \E req \in SeqRequests : Len(log) < MaxCalls /\ Clasificar(req)
SpecSeq == Init /\ [][SeqNext]_vars

\* Two evaluations at one food quality firmly inside Excelente.
MonoRequests ==
    {ClasificacionRequest(t, c) : t \in tiempo_espera_universe, c \in {9, 10}}

MonoNext ==
    \E req \in MonoRequests :
        /\ Len(log) < 2
        /\ log # <<>> => req.calidad_comida = log[1].request.calidad_comida
        /\ Clasificar(req)
SpecMono == Init /\ [][MonoNext]_vars

(***************************************************************************)
(* Concurrent calls.  The endpoint is a plain def, which the server runs   *)
(* in worker threads; each statement of clasificar is one step here        *)
(* (compute() is taken as one step, which only removes interleavings).     *)
(***************************************************************************)
ConcurrentRequests ==
    {ClasificacionRequest(5, 9), ClasificacionRequest(50, 1),
     ClasificacionRequest(60 + Margin, 10 + Margin)}

Started == Len(log) + Cardinality({w \in Workers : pc[w] # "idle"})

\* A worker thread enters clasificar(request).
Begin(w, req) ==
    /\ pc[w] = "idle"
    /\ Started < MaxConcurrentCalls
    /\ pc' = [pc EXCEPT ![w] = "L103"]
    /\ request' = [request EXCEPT ![w] = Some(req)]
    /\ UNCHANGED <<clasificador_servicio, clip_to_bounds, exc, log>>

\* Line 103.
AssignTiempo(w) ==
    /\ pc[w] = "L103"
    /\ clasificador_servicio' =
           SetInput(clasificador_servicio, clip_to_bounds, "tiempo_espera",
                    Val(request[w]).tiempo_espera)
    /\ pc' = [pc EXCEPT ![w] = "L104"]
    /\ UNCHANGED <<clip_to_bounds, request, exc, log>>

\* Line 104.
AssignComida(w) ==
    /\ pc[w] = "L104"
    /\ clasificador_servicio' =
           SetInput(clasificador_servicio, clip_to_bounds, "calidad_comida",
                    Val(request[w]).calidad_comida)
    /\ pc' = [pc EXCEPT ![w] = "L107"]
    /\ UNCHANGED <<clip_to_bounds, request, exc, log>>

\* Line 107: compute() returns, or raises into the except branch.
Compute(w) ==
    /\ pc[w] = "L107"
    /\ \E c \in {compute(clasificador_servicio)} :
           /\ clasificador_servicio' = c.sim
           /\ exc' = [exc EXCEPT ![w] = c.raised]
           /\ pc' = [pc EXCEPT ![w] = IF c.raised = None THEN "L110" ELSE "L119"]
    /\ UNCHANGED <<clip_to_bounds, request, log>>

\* Lines 110-116.
ReturnResult(w) ==
    /\ pc[w] = "L110"
    /\ log' = Append(log, [request |-> Val(request[w]),
                           response |-> ReadOutput(clasificador_servicio)])
    /\ pc' = [pc EXCEPT ![w] = "idle"]
    /\ request' = [request EXCEPT ![w] = None]
    /\ UNCHANGED <<clasificador_servicio, clip_to_bounds, exc>>

\* Lines 117-122.
ReturnError(w) ==
    /\ pc[w] = "L119"
    /\ log' = Append(log, [request |-> Val(request[w]),
                           response |-> ErrorResponse(Val(exc[w]))])
    /\ pc' = [pc EXCEPT ![w] = "idle"]
    /\ request' = [request EXCEPT ![w] = None]
    /\ exc' = [exc EXCEPT ![w] = None]
    /\ UNCHANGED <<clasificador_servicio, clip_to_bounds>>

Next ==
    \E w \in Workers :
        \/ \E req \in ConcurrentRequests : Begin(w, req)
        \/ AssignTiempo(w)
        \/ AssignComida(w)
        \/ Compute(w)
        \/ ReturnResult(w)
        \/ ReturnError(w)

Spec == Init /\ [][Next]_vars

(***************************************************************************)
(* What a request is expected to produce, computed apart from the shared   *)
(* simulation.                                                             *)
(***************************************************************************)
\* The response of a call served alone on a simulation of its own.
OwnResponse(req) == clasificar(NewSimulation, clip_to_bounds, req).response

Score(entry) == Val(entry.response.puntuacion_final)
Succeeded(entry) == entry.response.puntuacion_final # None
Tiempo(entry) == entry.request.tiempo_espera
Comida(entry) == entry.request.calidad_comida

\* The nine rules of the rule base.
RuleBase == {rule1, rule2, rule3, rule4, rule5, rule6, rule7, rule8, rule9}

\* The degrees of a request's two values, as the simulation takes them.
FzRequest(req) ==
    [tiempo_espera  |-> Fuzzify(tiempo_espera,
                          Accepted(clip_to_bounds, tiempo_espera, req.tiempo_espera)),
     calidad_comida |-> Fuzzify(calidad_comida,
                          Accepted(clip_to_bounds, calidad_comida, req.calidad_comida))]

\* The rules firing with strength > 0 for a request.
FiredRules(req) == {r \in RuleBase : Firing(r, FzRequest(req)) > 0}

InRange(req) ==
    /\ req.tiempo_espera \in tiempo_espera_universe
    /\ req.calidad_comida \in calidad_comida_universe

\* The outcome of compute() on a simulation of its own holding the request.
EvaluationOf(req) ==
    compute(SetInput(SetInput(NewSimulation, clip_to_bounds, "tiempo_espera",
                              req.tiempo_espera),
                     clip_to_bounds, "calidad_comida", req.calidad_comida))

Degenerate == "Error en la clasificacion: Crisp output cannot be calculated"

(***************************************************************************)
(* C1                                                                      *)
(***************************************************************************)
\* C1: every response carries the score of its own request, whatever other
\* calls run at the same time (no call sees inputs or outputs of another).
C1_OwnScore == \A i \in DOMAIN log : log[i].response = OwnResponse(log[i].request)

(***************************************************************************)
(* C2                                                                      *)
(***************************************************************************)
\* C2: in a sequential run, two calls with the same pair of inputs get the
\* same response, whatever calls (successful or failed) came before.
C2_Idempotent ==
    \A i, j \in DOMAIN log :
        log[i].request = log[j].request => log[i].response = log[j].response

\* A failed call, then a different pair evaluated twice with success.
C2_Witness ==
    /\ Len(log) = 3
    /\ ~Succeeded(log[1])
    /\ log[1].request # log[2].request
    /\ log[2].request = log[3].request
    /\ Succeeded(log[3])

(***************************************************************************)
(* C3                                                                      *)
(***************************************************************************)
\* C3: whenever at least one of the nine rules fires with strength > 0, the
\* call returns a score, and the score lies in [0, 100].
C3_ScoreInUniverse ==
    \A i \in DOMAIN log :
        FiredRules(log[i].request) # {} =>
            /\ Succeeded(log[i])
            /\ 100 * calidad_servicio.min <= Score(log[i])
            /\ Score(log[i]) <= 100 * calidad_servicio.max

\* A call in which several rules fired and a score came back.
C3_Witness ==
    \E i \in DOMAIN log :
        /\ Cardinality(FiredRules(log[i].request)) >= 2
        /\ Succeeded(log[i])

(***************************************************************************)
(* C4                                                                      *)
(***************************************************************************)
\* C4: a call whose evaluation raises returns puntuacion_final = None with
\* the error status (never a number, even when an earlier call left a score
\* in the simulation); a call whose evaluation succeeds returns its rounded
\* score with the status of success.
C4_FailureSurfaced ==
    \A i \in DOMAIN log :
        \A c \in {EvaluationOf(log[i].request)} :
            IF c.raised # None
            THEN log[i].response =
                     [puntuacion_final |-> None,
                      estado |-> "Error en la clasificacion: " \o Val(c.raised)]
            ELSE log[i].response =
                     [puntuacion_final |->
                          Some(round2(Val(c.sim.output.calidad_servicio))),
                      estado |-> "Clasificacion exitosa"]

\* A failed call right after a successful one.
C4_Witness ==
    /\ Len(log) >= 2
    /\ Succeeded(log[1])
    /\ ~Succeeded(log[2])
    /\ log[2].response.estado = Degenerate

(***************************************************************************)
(* C5                                                                      *)
(***************************************************************************)
\* The consequent the documentation gives for each (wait, food) pair.
ClaimedTable ==
    (<<"Bajo", "Mala">> :> "Regular") @@ (<<"Bajo", "Aceptable">> :> "Buena")
    @@ (<<"Bajo", "Excelente">> :> "Excelente")
    @@ (<<"Medio", "Mala">> :> "Mala") @@ (<<"Medio", "Aceptable">> :> "Regular")
    @@ (<<"Medio", "Excelente">> :> "Buena")
    @@ (<<"Alto", "Mala">> :> "Mala") @@ (<<"Alto", "Aceptable">> :> "Regular")
    @@ (<<"Alto", "Excelente">> :> "Buena")

\* The cuts the documented table gives: per output term, the max over its
\* pairs of the min of the two degrees.
ClaimedCuts(fz) ==
    [t \in DOMAIN calidad_servicio_terms |->
        MaxOf({Min2(fz.tiempo_espera[p[1]], fz.calidad_comida[p[2]]) :
               p \in {q \in DOMAIN ClaimedTable : ClaimedTable[q] = t}})]

\* C5: the control system holds exactly one rule per (wait, food) pair, an
\* AND of the two terms with the documented consequent, nine in all; and the
\* set a call aggregates is the one the documented table gives with min.
C5_RuleBase ==
    /\ Len(control_sistema) = 9
    /\ DOMAIN ClaimedTable =
           (DOMAIN tiempo_espera_terms) \X (DOMAIN calidad_comida_terms)
    /\ \A p \in DOMAIN ClaimedTable :
           \A rs \in {{i \in DOMAIN control_sistema :
                          /\ control_sistema[i].antecedent.left = <<"tiempo_espera", p[1]>>
                          /\ control_sistema[i].antecedent.right = <<"calidad_comida", p[2]>>}} :
               /\ Cardinality(rs) = 1
               /\ \A i \in rs : /\ control_sistema[i].antecedent.op = "AND"
                                /\ control_sistema[i].consequent = ClaimedTable[p]
    /\ \A i \in DOMAIN log :
           i = Len(log) =>
               clasificador_servicio.aggregated =
                   Aggregate(ClaimedCuts(FzRequest(log[i].request)))

\* A call in which rules with different consequents fired.
C5_Witness ==
    \E i \in DOMAIN log :
        /\ Succeeded(log[i])
        /\ Cardinality({r.consequent : r \in FiredRules(log[i].request)}) >= 2

C7_Case ==
    /\ Len(log) = 2
    /\ Comida(log[1]) = Comida(log[2])
    /\ Comida(log[1]) \in {9, 10}
    /\ Tiempo(log[1]) < Tiempo(log[2])
    /\ Succeeded(log[1])
    /\ Succeeded(log[2])

\* C7 as stated: the longer wait never scores higher.
C7_Monotone == C7_Case => Score(log[2]) <= Score(log[1])

\* C7 as amended: the longer wait never scores higher while it is at most
\* 15 minutes; over the whole range it scores at most 0.5 points higher.
C7_MonotoneToBreakpoint ==
    C7_Case =>
        /\ Tiempo(log[2]) <= 15 => Score(log[2]) <= Score(log[1])
        /\ Score(log[2]) <= Score(log[1]) + 50

\* A longer wait within 15 minutes that scored strictly lower.
C7_Witness ==
    /\ C7_Case
    /\ Tiempo(log[2]) <= 15
    /\ Score(log[2]) < Score(log[1])

(***************************************************************************)
(* C8                                                                      *)
(***************************************************************************)
\* C8: for tiempo_espera = 5 and calidad_comida = 9 only the rule Bajo and
\* Excelente -> Excelente fires, and the score lies in [90, 100].
C8_LowWaitExcellentFood ==
    \A i \in DOMAIN log :
        log[i].request = ClasificacionRequest(5, 9) =>
            /\ FiredRules(log[i].request) =
                   {Rule(TermAnd("Bajo", "Excelente"), "Excelente")}
            /\ Succeeded(log[i])
            /\ 9000 <= Score(log[i])
            /\ Score(log[i]) <= 10000

C8_Witness ==
    \E i \in DOMAIN log :
        /\ log[i].request = ClasificacionRequest(5, 9)
        /\ Succeeded(log[i])
        /\ Score(log[i]) > 9000

(***************************************************************************)
(* C9                                                                      *)
(***************************************************************************)
\* C9: for tiempo_espera = 50 and calidad_comida = 1 only the rule Alto and
\* Mala -> Mala fires, and the score lies in [0, 25].
C9_HighWaitPoorFood ==
    \A i \in DOMAIN log :
        log[i].request = ClasificacionRequest(50, 1) =>
            /\ FiredRules(log[i].request) =
                   {Rule(TermAnd("Alto", "Mala"), "Mala")}
            /\ Succeeded(log[i])
            /\ 0 <= Score(log[i])
            /\ Score(log[i]) <= 2500

C9_Witness ==
    \E i \in DOMAIN log :
        /\ log[i].request = ClasificacionRequest(50, 1)
        /\ Succeeded(log[i])
        /\ Score(log[i]) < 2500

(***************************************************************************)
(* C10                                                                     *)
(***************************************************************************)
\* C10: for every request inside the universes, each input variable has a
\* label of degree > 0, some rule fires, and the call does not fail.
C10_Coverage ==
    \A i \in DOMAIN log :
        InRange(log[i].request) =>
            \A fz \in {FzRequest(log[i].request)} :
                /\ \E l \in DOMAIN tiempo_espera_terms : fz.tiempo_espera[l] > 0
                /\ \E l \in DOMAIN calidad_comida_terms : fz.calidad_comida[l] > 0
                /\ FiredRules(log[i].request) # {}
                /\ Succeeded(log[i])

\* A call at the breakpoints 15 and 4, where Bajo and Mala have dropped to 0.
C10_Witness ==
    \E i \in DOMAIN log :
        /\ log[i].request = ClasificacionRequest(15, 4)
        /\ FzRequest(log[i].request).tiempo_espera["Bajo"] = 0
        /\ FzRequest(log[i].request).calidad_comida["Mala"] = 0
        /\ Succeeded(log[i])

====
